---- MODULE Spec2Model ----
(***************************************************************************)
(* Model of the civic complaint platform: the OTP identity routes of the   *)
(* server (send-otp, verify-otp) and the in-memory complaint routes.       *)
(* Every route handler without an await runs to completion on Node's       *)
(* single thread, so it is one atomic action.                              *)
(***************************************************************************)
EXTENDS Integers, Sequences, FiniteSets, TLC

VARIABLES
    otpStore,   \* Map phone -> [otp, expires]
    users,      \* array of [phone, citizenId, joinedAt, isVerified]
    now,        \* Date.now(), in milliseconds since the server started
    inflight,   \* verify-otp requests received and not yet handled
    hist,       \* the auth requests handled so far, each with its response
    complaints, \* array of complaint records (the in-memory store)
    awaiting,   \* submissions suspended at await analyzeImageWithGemini
    calls,      \* the complaint requests answered so far, each with its response
    hasKey,     \* process.env.GEMINI_API_KEY is set
    made,       \* the submissions persisted so far: body, analysis, record pushed
    reply       \* the data of the last response of a read route

vars == <<otpStore, users, now, inflight, hist, complaints, awaiting, calls, hasKey,
          made, reply>>
authVars == <<otpStore, users, inflight, hist>>
complaintVars == <<complaints, awaiting, calls, hasKey, made, reply>>

(***************************************************************************)
(* Bounds.                                                                 *)
(***************************************************************************)
MaxHist == 4        \* requests handled in one run
MaxInflight == 2    \* verify-otp requests in flight at once
MaxRace == 3        \* requests received in one run with requests in flight
MaxCalls == 2       \* complaint requests received in one run

(***************************************************************************)
(* Values.                                                                 *)
(***************************************************************************)
Undefined == "<undefined>"              \* a field missing from req.body
Phones == {"9000000001", "9000000002"}
ShortPhone == "12345"
PhoneInputs == Phones \cup {ShortPhone, Undefined}
OtpCodes == {"1000", "9999"}            \* ends of the range of the 4-digit code
CitizenIds == {"CIT-1000", "CIT-9999"}  \* ends of the range of the citizen id

OtpTtl == 5 * 60 * 1000
MinPhoneLen == 10

\* the instants at which the clock is read: the start, and the last valid and
\* the first expired millisecond of a challenge issued at the start
Instants == {0, OtpTtl, OtpTtl + 1}

MsgOtpSent == "OTP sent successfully"
MsgInvalidPhone == "Invalid phone number"
NoPendingChallenge == "OTP expired or not sent"
InvalidCode == "Invalid OTP"
ExpiredChallenge == "OTP expired"
MsgLogin == "Login successful"

(***************************************************************************)
(* Map and array helpers.                                                  *)
(***************************************************************************)
Max(S) == CHOOSE x \in S : \A y \in S : y <= x

MapHas(m, k) == k \in DOMAIN m
MapSet(m, k, v) == (k :> v) @@ m
\* a delete that removes nothing
MapDeleteNothing(m, k) == m

MapDelete(m, k) == [x \in (DOMAIN m) \ {k} |-> m[x]]

\* a lookup that never finds the user
FindUserNever(us, phone) == 0

\* users.find(u => u.phone === phone): the index of the first match, 0 if none
FindUser(us, phone) ==
    IF \E i \in 1..Len(us) : us[i].phone = phone
    THEN CHOOSE i \in 1..Len(us) :
            /\ us[i].phone = phone
            /\ \A j \in 1..(i - 1) : us[j].phone # phone
    ELSE 0

(***************************************************************************)
(* send-otp                                                                *)
(***************************************************************************)
\* a check that rejects only a missing phone
PhoneRejectedMissingOnly(phone) == phone = Undefined \/ phone = ""

\* !phone || phone.length < 10
PhoneRejected(phone) ==
    \/ phone = Undefined
    \/ phone = ""
    \/ Len(phone) < MinPhoneLen

\* a send-otp that keeps the challenge already stored for the phone
StoreChallengeKeepFirst(store, phone, otp, t) ==
    IF MapHas(store, phone) THEN store
    ELSE MapSet(store, phone, [otp |-> otp, expires |-> t + OtpTtl])

\* otpStore.set(phone, { otp, expires: Date.now() + 5 * 60 * 1000 })
StoreChallenge(store, phone, otp, t) ==
    MapSet(store, phone, [otp |-> otp, expires |-> t + OtpTtl])

\* one handled request and its response; seen is how many requests had been
\* handled when this one arrived, at is Date.now() in the handler
Event(op, phone, otp, status, message, isNew, citizenId, seen) ==
    [op |-> op, phone |-> phone, otp |-> otp, status |-> status,
     message |-> message, isNew |-> isNew, citizenId |-> citizenId,
     seen |-> seen, at |-> now]

\* otp is the value Math.random draws; on success it is also what the SMS carries
SendOtp(phone, otp) ==
    /\ Len(hist) < MaxHist
    /\ IF PhoneRejected(phone)
       THEN /\ otpStore' = otpStore
            /\ hist' = Append(hist, Event("send-otp", phone, "", 400, MsgInvalidPhone, FALSE, "", Len(hist)))
       ELSE /\ otpStore' = StoreChallenge(otpStore, phone, otp, now)
            /\ hist' = Append(hist, Event("send-otp", phone, otp, 200, MsgOtpSent, FALSE, "", Len(hist)))
    /\ UNCHANGED <<users, now, inflight, complaintVars>>

(***************************************************************************)
(* verify-otp                                                              *)
(***************************************************************************)
\* a comparison that lets every code through
OtpMismatchNever(record, otp) == FALSE

\* record.otp !== otp
OtpMismatch(record, otp) == record.otp # otp

\* a handler without the expiry test
OtpExpiredNever(record, t) == FALSE

\* Date.now() > record.expires
OtpExpired(record, t) == t > record.expires

\* an expired branch that forgets to delete
ClearExpiredKeep(store, phone) == store

\* otpStore.delete(phone) on the expired branch
ClearExpired(store, phone) == MapDelete(store, phone)

\* a valid branch that forgets to delete
ClearValidKeep(store, phone) == store

\* otpStore.delete(phone) on the valid branch
ClearValid(store, phone) == MapDelete(store, phone)

\* users.push(user) for a phone users.find did not find
PushUser(us, phone, citizenId, t) ==
    Append(us, [phone |-> phone, citizenId |-> citizenId, joinedAt |-> t,
                isVerified |-> TRUE])

\* the whole handler; citizenId is the value Math.random draws for a new user
VerifyOtp(phone, otp, citizenId, seen) ==
    IF ~MapHas(otpStore, phone)
    THEN /\ hist' = Append(hist, Event("verify-otp", phone, otp, 400, NoPendingChallenge, FALSE, "", seen))
         /\ UNCHANGED <<otpStore, users>>
    ELSE IF OtpMismatch(otpStore[phone], otp)
    THEN /\ hist' = Append(hist, Event("verify-otp", phone, otp, 400, InvalidCode, FALSE, "", seen))
         /\ UNCHANGED <<otpStore, users>>
    ELSE IF OtpExpired(otpStore[phone], now)
    THEN /\ otpStore' = ClearExpired(otpStore, phone)
         /\ hist' = Append(hist, Event("verify-otp", phone, otp, 400, ExpiredChallenge, FALSE, "", seen))
         /\ UNCHANGED users
    ELSE LET i == FindUser(users, phone)
             isNew == (i = 0)
             us == IF isNew THEN PushUser(users, phone, citizenId, now) ELSE users
             user == IF isNew THEN us[Len(us)] ELSE users[i]
         IN /\ otpStore' = ClearValid(otpStore, phone)
            /\ users' = us
            /\ hist' = Append(hist, Event("verify-otp", phone, otp, 200, MsgLogin, isNew, user.citizenId, seen))

\* a verify-otp request handled as soon as it arrives
Verify(phone, otp, citizenId) ==
    /\ Len(hist) < MaxHist
    /\ VerifyOtp(phone, otp, citizenId, Len(hist))
    /\ UNCHANGED <<now, inflight, complaintVars>>

\* a verify-otp request reaches the server while others wait to be handled
Arrive(client, phone, otp) ==
    /\ Len(hist) + Cardinality(inflight) < MaxRace
    /\ \A r \in inflight : r.client # client
    /\ \A c \in 1..(client - 1) : \E r \in inflight : r.client = c
    /\ inflight' = inflight \cup
          {[client |-> client, phone |-> phone, otp |-> otp, seen |-> Len(hist)]}
    /\ UNCHANGED <<otpStore, users, now, hist, complaintVars>>

\* the event loop runs the handler of one waiting request to completion
Handle(r, citizenId) ==
    /\ r \in inflight
    /\ VerifyOtp(r.phone, r.otp, citizenId, r.seen)
    /\ inflight' = inflight \ {r}
    /\ UNCHANGED <<now, complaintVars>>

\* send-otp while verify-otp requests wait
SendOtpRace(phone, otp) ==
    /\ Len(hist) + Cardinality(inflight) < MaxRace
    /\ SendOtp(phone, otp)

(***************************************************************************)
(* JavaScript values and string functions used by the complaint routes.    *)
(***************************************************************************)
\* a value is truthy: req.body fields are strings or missing
Truthy(v) == v # Undefined /\ v # ""

\* `${v}` in a template literal
Str(v) == IF v = Undefined THEN "undefined" ELSE v

LowerChar(c) ==
    CASE c = "A" -> "a" [] c = "B" -> "b" [] c = "C" -> "c" [] c = "D" -> "d"
      [] c = "E" -> "e" [] c = "F" -> "f" [] c = "G" -> "g" [] c = "H" -> "h"
      [] c = "I" -> "i" [] c = "J" -> "j" [] c = "K" -> "k" [] c = "L" -> "l"
      [] c = "M" -> "m" [] c = "N" -> "n" [] c = "O" -> "o" [] c = "P" -> "p"
      [] c = "Q" -> "q" [] c = "R" -> "r" [] c = "S" -> "s" [] c = "T" -> "t"
      [] c = "U" -> "u" [] c = "V" -> "v" [] c = "W" -> "w" [] c = "X" -> "x"
      [] c = "Y" -> "y" [] c = "Z" -> "z" [] OTHER -> c

\* String.prototype.toLowerCase
RECURSIVE ToLowerCase(_)
ToLowerCase(str) ==
    IF str = "" THEN "" ELSE LowerChar(Head(str)) \o ToLowerCase(Tail(str))

\* String.prototype.includes
Includes(str, word) ==
    \E i \in 1..(Len(str) - Len(word) + 1) : SubSeq(str, i, i + Len(word) - 1) = word

Digits == <<"0", "1", "2", "3", "4", "5", "6", "7", "8", "9",
            "A", "B", "C", "D", "E", "F", "G", "H", "I", "J", "K", "L", "M",
            "N", "O", "P", "Q", "R", "S", "T", "U", "V", "W", "X", "Y", "Z">>

\* Number.prototype.toString(radix), upper-cased, of a non-negative integer
RECURSIVE ToStringRadix(_, _)
ToStringRadix(n, radix) ==
    IF n < radix THEN Digits[n + 1]
    ELSE ToStringRadix(n \div radix, radix) \o Digits[(n % radix) + 1]

IsDigit(c) == \E d \in 1..10 : Digits[d] = c
DigitValue(c) == (CHOOSE d \in 1..10 : Digits[d] = c) - 1

NaN == [finite |-> FALSE, value |-> 0]
Number(n) == [finite |-> TRUE, value |-> n]

\* the value of the longest prefix of decimal digits of str, read after acc
RECURSIVE ParseDigits(_, _)
ParseDigits(str, acc) ==
    IF str = "" \/ ~IsDigit(Head(str)) THEN acc
    ELSE ParseDigits(Tail(str), 10 * acc + DigitValue(Head(str)))

\* parseFloat of a missing field or of a string of unsigned whole degrees:
\* NaN unless the string starts with a digit
ParseFloat(v) ==
    IF v = Undefined \/ v = "" \/ ~IsDigit(Head(v)) THEN NaN
    ELSE Number(ParseDigits(v, 0))

\* parseInt of a decimal string with an optional minus sign: NaN unless
\* digits follow
ParseInt(v) ==
    IF v = "" THEN NaN
    ELSE IF Head(v) = "-"
    THEN IF Tail(v) = "" \/ ~IsDigit(Head(Tail(v))) THEN NaN
         ELSE Number(0 - ParseDigits(Tail(v), 0))
    ELSE IF ~IsDigit(Head(v)) THEN NaN
    ELSE Number(ParseDigits(v, 0))

\* a + b on numbers
Plus(a, b) == IF a.finite /\ b.finite THEN Number(a.value + b.value) ELSE NaN

\* Array.prototype.slice(start, end): NaN counts as 0, a negative index
\* counts from the end
SliceIndex(x, len) ==
    LET k == IF x.finite THEN x.value ELSE 0
    IN IF k < 0 THEN (IF len + k < 0 THEN 0 ELSE len + k)
       ELSE (IF k < len THEN k ELSE len)

Slice(arr, start, end) ==
    LET from == SliceIndex(start, Len(arr))
        to == SliceIndex(end, Len(arr))
    IN IF from >= to THEN << >> ELSE SubSeq(arr, from + 1, to)

(***************************************************************************)
(* Complaint model and classification.                                     *)
(***************************************************************************)
IssueTypes == {"pothole", "garbage", "streetlight", "water-leakage", "dirty-toilet", "other"}
Statuses == {"pending", "in-progress", "resolved", "rejected"}
Priorities == {"low", "medium", "high", "critical"}

\* what analyzeImageWithGemini returns when it returns null
NoAnalysis ==
    [found |-> FALSE, issueType |-> Undefined, priority |-> Undefined,
     description |-> Undefined]

\* what analyzeImageWithGemini returns when the key is missing, the upstream
\* call throws or the answer does not parse: null again
\* a failure path that answers with a default classification instead of null
UnavailableGuess ==
    [found |-> TRUE, issueType |-> "other", priority |-> "low", description |-> Undefined]

Unavailable == NoAnalysis

\* the objects JSON.parse may return for the upstream answer
Analyses ==
    {[found |-> TRUE, issueType |-> "pothole", priority |-> "high",
      description |-> "Large pothole in center of road."],
     [found |-> TRUE, issueType |-> "flooding", priority |-> Undefined,
      description |-> Undefined],
     [found |-> TRUE, issueType |-> "other", priority |-> "low",
      description |-> "Trash near the lamp post"]}

\* a fallback that looks for streetlight words before garbage words
GuessIssueTypeLightFirst(lowerDesc) ==
    IF \E w \in {"road", "pothole", "crack", "hole"} : Includes(lowerDesc, w)
    THEN "pothole"
    ELSE IF \E w \in {"light", "lamp", "dark", "pole"} : Includes(lowerDesc, w)
    THEN "streetlight"
    ELSE IF \E w \in {"garbage", "trash", "waste", "dustbin", "plastic"} : Includes(lowerDesc, w)
    THEN "garbage"
    ELSE IF \E w \in {"water", "leak", "pipe", "drain", "sewage"} : Includes(lowerDesc, w)
    THEN "water-leakage"
    ELSE IF \E w \in {"toilet", "bathroom", "urinal"} : Includes(lowerDesc, w)
    THEN "dirty-toilet"
    ELSE "other"

\* the SMART FALLBACK: the first category whose keywords the text includes
GuessIssueType(lowerDesc) ==
    IF \E w \in {"road", "pothole", "crack", "hole"} : Includes(lowerDesc, w)
    THEN "pothole"
    ELSE IF \E w \in {"garbage", "trash", "waste", "dustbin", "plastic"} : Includes(lowerDesc, w)
    THEN "garbage"
    ELSE IF \E w \in {"light", "lamp", "dark", "pole"} : Includes(lowerDesc, w)
    THEN "streetlight"
    ELSE IF \E w \in {"water", "leak", "pipe", "drain", "sewage"} : Includes(lowerDesc, w)
    THEN "water-leakage"
    ELSE IF \E w \in {"toilet", "bathroom", "urinal"} : Includes(lowerDesc, w)
    THEN "dirty-toilet"
    ELSE "other"

\* departmentMap[issueType] || 'General Administration'
DepartmentOf(issueType) ==
    CASE issueType = "pothole" -> "Roads & Highway Dept"
      [] issueType = "garbage" -> "Sanitation Dept"
      [] issueType = "streetlight" -> "Energy & Power Dept"
      [] issueType = "water-leakage" -> "Water Supply Dept"
      [] issueType = "dirty-toilet" -> "Health & Hygiene Dept"
      [] issueType = "other" -> "General Administration"
      [] OTHER -> "General Administration"

\* generateComplaintId; random is Math.random().toString(36).substring(2, 6)
GenerateComplaintId(t, random) ==
    "CIV-" \o ToStringRadix(t, 36) \o "-" \o random

\* issueType after the AI override
OverrideIssueType(body, ai) ==
    IF ai.found
    THEN IF Truthy(ai.issueType) THEN ai.issueType ELSE body.issueType
    ELSE body.issueType

\* an override that puts the adapter's description in place of the citizen's
AppendAiNoteReplaces(body, ai) ==
    IF ai.found /\ Truthy(ai.description) THEN ai.description ELSE body.description

\* description after the AI note is appended
AppendAiNote(body, ai) ==
    IF ai.found
    THEN Str(body.description) \o " " \o
         (IF Truthy(ai.description) THEN "(AI Detected: " \o ai.description \o ")" ELSE "")
    ELSE body.description

\* if (!issueType || !latitude || !longitude) issueType = issueType || 'other'
DefaultIssueType(issueType, body) ==
    IF ~Truthy(issueType) \/ ~Truthy(body.latitude) \/ ~Truthy(body.longitude)
    THEN IF Truthy(issueType) THEN issueType ELSE "other"
    ELSE issueType

\* if (issueType === 'other' && description) guess from the description
FallbackIssueType(issueType, description) ==
    IF issueType = "other" /\ Truthy(description)
    THEN GuessIssueType(ToLowerCase(description))
    ELSE issueType

\* the record the handler builds; ai is the result of the analysis (NoAnalysis
\* when there is no photo), random the draw of generateComplaintId
NewComplaint(body, hasFile, ai, random, t) ==
    LET description == AppendAiNote(body, ai)
        issueType == FallbackIssueType(
                        DefaultIssueType(OverrideIssueType(body, ai), body),
                        description)
        department == DepartmentOf(issueType)
    IN [id |-> "mem_" \o ToStringRadix(t, 10),
        complaintId |-> GenerateComplaintId(t, random),
        issueType |-> issueType,
        description |-> description,
        department |-> department,
        location |-> [latitude |-> ParseFloat(body.latitude),
                      longitude |-> ParseFloat(body.longitude),
                      address |-> IF Truthy(body.address) THEN body.address ELSE ""],
        citizenName |-> IF Truthy(body.citizenName) THEN body.citizenName ELSE "Anonymous",
        photo |-> IF hasFile THEN "/uploads/" \o body.filename ELSE "",
        status |-> "pending",
        priority |-> IF ai.found /\ Truthy(ai.priority) THEN ai.priority ELSE "medium",
        assignedTo |-> department,
        aiAnalysis |-> ai.found,
        resolutionNotes |-> Undefined,
        resolutionPhoto |-> Undefined,
        createdAt |-> t,
        updatedAt |-> t]

(***************************************************************************)
(* POST / : submit a complaint.                                            *)
(***************************************************************************)
Call(op, id, req, status, complaintId) ==
    [op |-> op, id |-> id, req |-> req, status |-> status,
     complaintId |-> complaintId, at |-> now]

\* the request bodies submitted; filename is the name multer gave the photo,
\* Undefined when the request carries none
DustbinReport ==
    [issueType |-> "garbage", description |-> "Overflowing dustbin",
     latitude |-> "12", longitude |-> "77", address |-> "MG Road",
     citizenName |-> "Asha", filename |-> Undefined]

PotholeReport ==
    [issueType |-> Undefined, description |-> "Pothole in the road",
     latitude |-> "12", longitude |-> "77", address |-> Undefined,
     citizenName |-> Undefined, filename |-> Undefined]

Bodies ==
    {DustbinReport,
     PotholeReport,
     [issueType |-> "flooding", description |-> "Broken bench",
      latitude |-> "13", longitude |-> "78", address |-> Undefined,
      citizenName |-> Undefined, filename |-> Undefined],
     [issueType |-> "other", description |-> "Broken bench",
      latitude |-> Undefined, longitude |-> "77", address |-> Undefined,
      citizenName |-> Undefined, filename |-> Undefined],
     [issueType |-> "streetlight", description |-> "",
      latitude |-> "12", longitude |-> "east", address |-> Undefined,
      citizenName |-> Undefined, filename |-> Undefined],
     [issueType |-> "other", description |-> "Broken bench",
      latitude |-> "12", longitude |-> "77", address |-> Undefined,
      citizenName |-> Undefined, filename |-> "1-5.jpg"],
     [issueType |-> Undefined, description |-> "Pothole in the road",
      latitude |-> "12", longitude |-> "77", address |-> Undefined,
      citizenName |-> Undefined, filename |-> "3-9.jpg"]}

RandomSuffixes == {"A1B2", "I"}

\* the suffixes a submission may draw. Only whether two draws are equal
\* matters, so the first complaint persisted draws the first suffix.
Draws == IF made = << >> THEN {"A1B2"} ELSE RandomSuffixes

\* NewComplaint tabulated over the requests, answers, draws and instants of
\* the model
Records ==
    [body \in Bodies, hasFile \in BOOLEAN, ai \in Analyses \cup {NoAnalysis, Unavailable},
     random \in RandomSuffixes, t \in Instants |->
        NewComplaint(body, hasFile, ai, random, t)]

\* a continuation that, resumed after the await, writes back the array the
\* handler read when the request arrived, taken empty, with its own record
PersistFromSnapshot(body, hasFile, ai, random) ==
    LET complaint == Records[body, hasFile, ai, random, now]
    IN /\ complaints' = IF hasFile /\ hasKey THEN <<complaint>>
                                              ELSE Append(complaints, complaint)
       /\ calls' = Append(calls, Call("submit", "", body, 201, complaint.complaintId))
       /\ made' = Append(made, [body |-> body, ai |-> ai, record |-> complaint])
       /\ UNCHANGED reply

\* complaints.push(complaint) and the 201 response
Persist(body, hasFile, ai, random) ==
    LET complaint == Records[body, hasFile, ai, random, now]
    IN /\ complaints' = Append(complaints, complaint)
       /\ calls' = Append(calls, Call("submit", "", body, 201, complaint.complaintId))
       /\ made' = Append(made, [body |-> body, ai |-> ai, record |-> complaint])
       /\ UNCHANGED reply

\* the handler up to its response, or up to the await of a configured adapter.
\* Without a photo there is no await; without a key the analysis returns null
\* at once and the continuation runs before any other request.
Submit(body, random) ==
    /\ Len(calls) + Cardinality(awaiting) < MaxCalls
    /\ IF body.filename # Undefined /\ hasKey
       THEN /\ awaiting' = awaiting \cup
                  {[body |-> body, ticket |-> Len(calls) + Cardinality(awaiting)]}
            /\ UNCHANGED <<complaints, calls, made, reply>>
       ELSE /\ Persist(body, body.filename # Undefined,
                       IF body.filename # Undefined THEN Unavailable ELSE NoAnalysis,
                       random)
            /\ UNCHANGED awaiting
    /\ UNCHANGED <<authVars, now, hasKey>>

\* the adapter's promise settles: ai is the parsed answer, or Unavailable when
\* the upstream call or JSON.parse threw
SubmitResume(r, ai, random) ==
    /\ r \in awaiting
    /\ awaiting' = awaiting \ {r}
    /\ Persist(r.body, TRUE, ai, random)
    /\ UNCHANGED <<authVars, now, hasKey>>

(***************************************************************************)
(* PATCH /:id : update a complaint.                                        *)
(***************************************************************************)
\* complaints.findIndex(c => c.complaintId === id): 0 stands for -1
FindIndex(cs, id) ==
    IF \E i \in 1..Len(cs) : cs[i].complaintId = id
    THEN CHOOSE i \in 1..Len(cs) :
            /\ cs[i].complaintId = id
            /\ \A j \in 1..(i - 1) : cs[j].complaintId # id
    ELSE 0

\* an assignment of the status without the if
ApplyStatusAlways(c, patch) == [c EXCEPT !.status = patch.status]

\* if (status) complaints[index].status = status
ApplyStatus(c, patch) ==
    IF Truthy(patch.status) THEN [c EXCEPT !.status = patch.status] ELSE c

\* a reassignment that moves the complaint to the assignee's department
ApplyPatchMovesDepartment(c, patch, t) ==
    LET c1 == ApplyStatus(c, patch)
        c2 == IF Truthy(patch.priority) THEN [c1 EXCEPT !.priority = patch.priority] ELSE c1
        c3 == IF Truthy(patch.assignedTo)
              THEN [c2 EXCEPT !.assignedTo = patch.assignedTo,
                              !.department = patch.assignedTo]
              ELSE c2
        c4 == IF Truthy(patch.resolutionNotes)
              THEN [c3 EXCEPT !.resolutionNotes = patch.resolutionNotes] ELSE c3
        c5 == IF patch.filename # Undefined
              THEN [c4 EXCEPT !.resolutionPhoto = "/uploads/" \o patch.filename] ELSE c4
    IN [c5 EXCEPT !.updatedAt = t]

\* the four if-statements on the body, the one on the file, and updatedAt
ApplyPatch(c, patch, t) ==
    LET c1 == ApplyStatus(c, patch)
        c2 == IF Truthy(patch.priority) THEN [c1 EXCEPT !.priority = patch.priority] ELSE c1
        c3 == IF Truthy(patch.assignedTo) THEN [c2 EXCEPT !.assignedTo = patch.assignedTo] ELSE c2
        c4 == IF Truthy(patch.resolutionNotes)
              THEN [c3 EXCEPT !.resolutionNotes = patch.resolutionNotes] ELSE c3
        c5 == IF patch.filename # Undefined
              THEN [c4 EXCEPT !.resolutionPhoto = "/uploads/" \o patch.filename] ELSE c4
    IN [c5 EXCEPT !.updatedAt = t]

\* no read route has answered yet
NoReply == [route |-> "none"]

EmptyPatch ==
    [status |-> Undefined, priority |-> Undefined, assignedTo |-> Undefined,
     resolutionNotes |-> Undefined, filename |-> Undefined]

Patches ==
    {EmptyPatch,
     [EmptyPatch EXCEPT !.status = "resolved", !.resolutionNotes = "Filled",
                        !.filename = "2-7.jpg"],
     [EmptyPatch EXCEPT !.status = "closed"],
     [EmptyPatch EXCEPT !.status = "", !.priority = "high", !.assignedTo = "Ward 7",
                        !.resolutionNotes = ""]}

UnknownId == "CIV-0-ZZZZ"

\* the ids a request may name: those of the stored complaints and one more
KnownIds == {complaints[i].complaintId : i \in 1..Len(complaints)} \cup {UnknownId}

Update(id, patch) ==
    /\ Len(calls) + Cardinality(awaiting) < MaxCalls
    /\ LET index == FindIndex(complaints, id)
       IN IF index = 0
          THEN /\ calls' = Append(calls, Call("update", id, patch, 404, ""))
               /\ UNCHANGED complaints
          ELSE /\ complaints' = [complaints EXCEPT ![index] = ApplyPatch(@, patch, now)]
               /\ calls' = Append(calls, Call("update", id, patch, 200, id))
    /\ UNCHANGED <<authVars, now, awaiting, hasKey, made, reply>>

(***************************************************************************)
(* DELETE /:id : remove a complaint.                                       *)
(***************************************************************************)
\* a request without a body
NoBody == [body |-> Undefined]

\* complaints.splice(index, 1)
Splice(cs, index) == SubSeq(cs, 1, index - 1) \o SubSeq(cs, index + 1, Len(cs))

Remove(id) ==
    /\ Len(calls) + Cardinality(awaiting) < MaxCalls
    /\ LET index == FindIndex(complaints, id)
       IN IF index = 0
          THEN /\ calls' = Append(calls, Call("remove", id, NoBody, 404, ""))
               /\ UNCHANGED complaints
          ELSE /\ complaints' = Splice(complaints, index)
               /\ calls' = Append(calls, Call("remove", id, NoBody, 200, id))
    /\ UNCHANGED <<authVars, now, awaiting, hasKey, made, reply>>

(***************************************************************************)
(* The read routes: GET /, GET /stats, GET /:id. They change nothing in    *)
(* the store; reply holds the response of the last one, with the number of *)
(* complaint requests answered before it.                                  *)
(***************************************************************************)
MsPerDay == 24 * 60 * 60 * 1000

\* new Date(t).toDateString(), as the number of the day, in a server on UTC
DayOf(t) == t \div MsPerDay

\* new Date(str) for the dates a query names
DateOf(str) ==
    CASE str = "1970-01-01" -> 0
      [] str = "1970-01-02" -> MsPerDay

\* the three filters of GET /
Matches(c, query) ==
    /\ Truthy(query.status) => c.status = query.status
    /\ Truthy(query.issueType) => c.issueType = query.issueType
    /\ Truthy(query.date) => DayOf(c.createdAt) = DayOf(DateOf(query.date))

\* results.filter(...)
RECURSIVE Filter(_, _)
Filter(cs, query) ==
    IF cs = << >> THEN << >>
    ELSE IF Matches(Head(cs), query)
         THEN <<Head(cs)>> \o Filter(Tail(cs), query)
         ELSE Filter(Tail(cs), query)

\* c put into a sequence sorted by createdAt descending, after the elements
\* created later and before the others
RECURSIVE InsertByDate(_, _)
InsertByDate(c, sorted) ==
    IF sorted = << >> THEN <<c>>
    ELSE IF Head(sorted).createdAt > c.createdAt
         THEN <<Head(sorted)>> \o InsertByDate(c, Tail(sorted))
         ELSE <<c>> \o sorted

\* a sort that leaves the array as it is
SortSkipped(cs) == cs

\* results.sort((a, b) => new Date(b.createdAt) - new Date(a.createdAt)):
\* the sort is stable, so complaints created in the same millisecond keep
\* their order
RECURSIVE SortByDate(_)
SortByDate(cs) ==
    IF cs = << >> THEN << >> ELSE InsertByDate(Head(cs), SortByDate(Tail(cs)))

\* const { status, issueType, limit = 100, skip = 0 } = req.query, parsed
QueryLimit(query) ==
    IF query.limit = Undefined THEN Number(100) ELSE ParseInt(query.limit)

QuerySkip(query) ==
    IF query.skip = Undefined THEN Number(0) ELSE ParseInt(query.skip)

List(query) ==
    /\ LET results == SortByDate(Filter(complaints, query))
           skip == QuerySkip(query)
           limit == QueryLimit(query)
       IN reply' = [route |-> "list", seq |-> Len(calls), query |-> query, status |-> 200,
                    data |-> Slice(results, skip, Plus(skip, limit)),
                    total |-> Len(results), limit |-> limit, skip |-> skip]
    /\ UNCHANGED <<authVars, now, complaints, awaiting, calls, hasKey, made>>

\* complaints.filter(c => c.status === st).length
CountStatus(cs, st) == Cardinality({i \in 1..Len(cs) : cs[i].status = st})

\* byType[t] after the forEach
CountType(cs, t) == Cardinality({i \in 1..Len(cs) : cs[i].issueType = t})

Stats ==
    /\ LET HasStatus(st) == CountStatus(complaints, st)
           types == {complaints[i].issueType : i \in 1..Len(complaints)}
       IN reply' = [route |-> "stats", seq |-> Len(calls), status |-> 200,
                    data |-> [total |-> Len(complaints),
                              pending |-> HasStatus("pending"),
                              inProgress |-> HasStatus("in-progress"),
                              resolved |-> HasStatus("resolved"),
                              rejected |-> HasStatus("rejected"),
                              recentCount |-> Len(complaints),
                              byType |-> [t \in types |-> CountType(complaints, t)]]]
    /\ UNCHANGED <<authVars, now, complaints, awaiting, calls, hasKey, made>>

Get(id) ==
    /\ LET index == FindIndex(complaints, id)
       IN reply' = IF index = 0
                   THEN [route |-> "get", seq |-> Len(calls), id |-> id, status |-> 404]
                   ELSE [route |-> "get", seq |-> Len(calls), id |-> id, status |-> 200,
                         data |-> complaints[index]]
    /\ UNCHANGED <<authVars, now, complaints, awaiting, calls, hasKey, made>>

(***************************************************************************)
(* The clock.                                                              *)
(***************************************************************************)
Tick(t) ==
    /\ t > now
    /\ now' = t
    /\ UNCHANGED <<authVars, complaintVars>>

Init ==
    /\ otpStore = << >>
    /\ users = << >>
    /\ now = 0
    /\ inflight = {}
    /\ hist = << >>
    /\ complaints = << >>
    /\ awaiting = {}
    /\ calls = << >>
    /\ hasKey = FALSE
    /\ made = << >>
    /\ reply = NoReply

Next ==
    \/ \E phone \in Phones, otp \in OtpCodes : SendOtp(phone, otp)
    \/ \E phone \in Phones, otp \in OtpCodes, c \in CitizenIds : Verify(phone, otp, c)
    \/ \E t \in Instants : Tick(t)

Spec == Init /\ [][Next]_vars

\* the same routes with verify-otp requests waiting in the event loop
NextRace ==
    \/ \E phone \in PhoneInputs, otp \in OtpCodes : SendOtpRace(phone, otp)
    \/ \E c \in 1..MaxInflight, phone \in Phones, otp \in OtpCodes : Arrive(c, phone, otp)
    \/ \E r \in inflight, c \in CitizenIds : Handle(r, c)
    \/ \E t \in Instants : Tick(t)

SpecRace == Init /\ [][NextRace]_vars

\* the complaint routes; the adapter's key is set or not when the server starts
InitComplaints ==
    /\ otpStore = << >>
    /\ users = << >>
    /\ now = 0
    /\ inflight = {}
    /\ hist = << >>
    /\ complaints = << >>
    /\ awaiting = {}
    /\ calls = << >>
    /\ hasKey \in BOOLEAN
    /\ made = << >>
    /\ reply = NoReply

NextComplaints ==
    \/ \E body \in Bodies, random \in Draws : Submit(body, random)
    \/ \E r \in awaiting, ai \in Analyses \cup {Unavailable}, random \in Draws :
          SubmitResume(r, ai, random)
    \/ \E id \in KnownIds, patch \in Patches : Update(id, patch)
    \/ \E id \in KnownIds : Remove(id)
    \/ \E t \in Instants : Tick(t)

SpecComplaints == InitComplaints /\ [][NextComplaints]_vars

\* the complaint routes with time passing. The event loop runs a suspended
\* submission on when the adapter's promise settles; SubmitResume is that
\* settling and the continuation in one step, and whether the upstream
\* service ever answers is not the server's to decide, so only the clock
\* is fair.
SpecLive ==
    /\ InitComplaints
    /\ [][NextComplaints]_vars
    /\ WF_vars(\E t \in Instants : Tick(t))

(***************************************************************************)
(* Stores the server can hold: complaints pushed one after the other, so   *)
(* in the order of their creation, each as submit built it, some resolved  *)
(* since by an update.                                                     *)
(***************************************************************************)
MaxStored == 5      \* complaints in the store when GET / is called

\* the draws of generateComplaintId for the complaints of a store
StoreSuffixes == <<"A1B2", "I", "K3J1", "Q8ZP", "0AB7", "M2M2", "X1Y9">>

\* the creation times of n complaints in the order of their push
CreatedAts(n) ==
    {f \in [1..n -> Instants] : \A i \in 1..(n - 1) : f[i] <= f[i + 1]}

StoresOf(n) ==
    {[i \in 1..n |->
        [NewComplaint(IF i % 2 = 1 THEN DustbinReport ELSE PotholeReport,
                      FALSE, NoAnalysis, StoreSuffixes[i], f[i])
            EXCEPT !.status = st[i]]] :
        f \in CreatedAts(n), st \in [1..n -> {"pending", "resolved"}]}

Stores(max) == UNION {StoresOf(n) : n \in 0..max}

\* the queries of GET /
Queries ==
    [status : {Undefined, "resolved"},
     issueType : {Undefined, "garbage"},
     date : {Undefined, "1970-01-02"},
     limit : {Undefined, "2", "0", "x"},
     skip : {Undefined, "0", "1", "7", "-1"}]

\* GET / on a store that earlier requests filled
InitList ==
    /\ otpStore = << >>
    /\ users = << >>
    /\ inflight = {}
    /\ hist = << >>
    /\ complaints \in Stores(MaxStored)
    /\ now = Max({0} \cup {complaints[i].createdAt : i \in 1..Len(complaints)})
    /\ awaiting = {}
    /\ calls = << >>
    /\ hasKey = FALSE
    /\ made = << >>
    /\ reply = NoReply

\* a read changes nothing in the store, so the first read of a run shows
\* every response the store can give
NextList == reply = NoReply /\ \E query \in Queries : List(query)

SpecList == InitList /\ [][NextList]_vars

(***************************************************************************)
(* All the complaint routes without photos, on a store that earlier        *)
(* requests filled.                                                        *)
(***************************************************************************)
MaxKept == 1        \* complaints in the store when the run starts

InitStore ==
    /\ otpStore = << >>
    /\ users = << >>
    /\ inflight = {}
    /\ hist = << >>
    /\ complaints \in Stores(MaxKept)
    /\ now = Max({0} \cup {complaints[i].createdAt : i \in 1..Len(complaints)})
    /\ awaiting = {}
    /\ calls = << >>
    /\ hasKey = FALSE
    /\ made = << >>
    /\ reply = NoReply

StoreQueries ==
    {q \in Queries : /\ q.issueType = Undefined /\ q.date = Undefined
                     /\ q.limit = Undefined /\ q.skip = Undefined}

NextStore ==
    \/ \E body \in {DustbinReport, PotholeReport}, random \in RandomSuffixes :
          Submit(body, random)
    \/ \E id \in KnownIds, patch \in Patches : Update(id, patch)
    \/ \E id \in KnownIds : Remove(id)
    \/ \E id \in KnownIds : Get(id)
    \/ \E query \in StoreQueries : List(query)
    \/ Stats
    \/ \E t \in Instants : Tick(t)

SpecStore == InitStore /\ [][NextStore]_vars

(***************************************************************************)
(* Reading the history. The claims are stated of the request handled last: *)
(* every handled request is the last one in the state its handler leaves,  *)
(* so an invariant about the last request holds of every request.          *)
(***************************************************************************)

Last == Len(hist)

\* event k is a send-otp for phone that stored a challenge
Sent(k, phone) ==
    hist[k].op = "send-otp" /\ hist[k].phone = phone /\ hist[k].status = 200

\* event k is a verify-otp for phone
Verified(k, phone) == hist[k].op = "verify-otp" /\ hist[k].phone = phone

\* the last send-otp for phone handled before event j, 0 if none
LastSend(j, phone) ==
    LET S == {s \in 1..(j - 1) : Sent(s, phone)}
    IN IF S = {} THEN 0 ELSE Max(S)

\* a challenge for phone, issued by event s, is stored when event j is
\* handled: no verification since has succeeded or been answered
\* ExpiredChallenge
PendingFrom(s, j, phone) ==
    /\ s # 0
    /\ \A k \in (s + 1)..(j - 1) :
          Verified(k, phone) => hist[k].message \notin {MsgLogin, ExpiredChallenge}

Pending(j, phone) == PendingFrom(LastSend(j, phone), j, phone)

\* the instant after which the challenge issued by event s is expired
DueAt(s) == hist[s].at + OtpTtl

\* event j carries the code of the challenge stored for phone
RightCode(j, phone) == hist[j].otp = hist[LastSend(j, phone)].otp

\* no identity exists for phone when event j is handled
NoIdentityBefore(j, phone) ==
    \A k \in 1..(j - 1) : Verified(k, phone) => hist[k].status # 200

(***************************************************************************)
(* C1: an OTP challenge is single-use. For a phone with no identity yet,   *)
(* the first verification with the stored code before expiry succeeds with *)
(* isNew = TRUE and deletes the challenge; a second verification with the  *)
(* same code, no send-otp for the phone in between, is answered            *)
(* NoPendingChallenge.                                                     *)
(***************************************************************************)
SingleUse ==
    \A phone \in Phones :
        (Last > 0 /\ Verified(Last, phone)) =>
          LET s == LastSend(Last, phone)
          IN /\ ( /\ PendingFrom(s, Last, phone)
                  /\ hist[Last].otp = hist[s].otp
                  /\ hist[Last].at <= DueAt(s)
                  /\ NoIdentityBefore(Last, phone) )
                => /\ hist[Last].status = 200
                   /\ hist[Last].isNew = TRUE
                   /\ ~MapHas(otpStore, phone)
             /\ \A i \in (s + 1)..(Last - 1) :
                   ( /\ Verified(i, phone) /\ hist[i].status = 200
                     /\ hist[Last].otp = hist[i].otp )
                   => hist[Last].message = NoPendingChallenge

SingleUseWitness ==
    \E phone \in Phones :
        /\ Len(hist) = 3
        /\ Sent(1, phone)
        /\ Verified(2, phone) /\ hist[2].status = 200 /\ hist[2].isNew
        /\ Verified(3, phone) /\ hist[3].otp = hist[2].otp
        /\ hist[3].message = NoPendingChallenge

(***************************************************************************)
(* C2: two verify-otp requests for one phone that wait in the event loop   *)
(* together, both carrying the code of the one stored challenge, never     *)
(* both succeed: whichever the loop runs second is answered                *)
(* NoPendingChallenge when the first succeeded.                            *)
(***************************************************************************)
\* events j1 < j2 are verify-otp for phone, j2 arrived before j1 was handled,
\* both carry the code of the challenge stored when j1 is handled, and no
\* send-otp for phone is handled between them
Raced(j1, j2, phone) ==
    /\ j1 < j2
    /\ Verified(j1, phone) /\ Verified(j2, phone)
    /\ hist[j2].seen < j1
    /\ Pending(j1, phone) /\ RightCode(j1, phone)
    /\ hist[j2].otp = hist[j1].otp
    /\ LastSend(j2, phone) = LastSend(j1, phone)

NoDoubleVerify ==
    \A phone \in Phones : \A j1 \in 1..(Last - 1) :
        Raced(j1, Last, phone)
        => /\ ~(hist[j1].status = 200 /\ hist[Last].status = 200)
           /\ (hist[j1].status = 200 => hist[Last].message = NoPendingChallenge)

NoDoubleVerifyWitness ==
    \E phone \in Phones :
        /\ Len(hist) = 3
        /\ Raced(2, 3, phone)
        /\ hist[2].status = 200
        /\ hist[3].message = NoPendingChallenge
        /\ inflight = {}

(***************************************************************************)
(* C3, as stated: whenever verify-otp is called for a phone whose stored   *)
(* challenge is past its expiry, the call is answered ExpiredChallenge and *)
(* the challenge is deleted.                                               *)
(***************************************************************************)
\* the request handled last is a verify-otp for phone, and the challenge
\* stored for phone when it is handled is past its expiry
LastVerifiedLate(phone) ==
    /\ Last > 0
    /\ Verified(Last, phone)
    /\ Pending(Last, phone)
    /\ hist[Last].at > DueAt(LastSend(Last, phone))

ExpiredAlwaysConsumed ==
    \A phone \in Phones :
        LastVerifiedLate(phone)
        => /\ hist[Last].message = ExpiredChallenge
           /\ ~MapHas(otpStore, phone)

(***************************************************************************)
(* C3, amended: whenever verify-otp is called with the stored code for a   *)
(* phone whose stored challenge is past its expiry, the call is answered   *)
(* ExpiredChallenge and the challenge is deleted; with any other code the  *)
(* call is answered InvalidCode and the expired challenge stays stored.    *)
(***************************************************************************)
ExpiredConsumed ==
    \A phone \in Phones :
        LastVerifiedLate(phone)
        => IF RightCode(Last, phone)
           THEN /\ hist[Last].message = ExpiredChallenge
                /\ ~MapHas(otpStore, phone)
           ELSE /\ hist[Last].message = InvalidCode
                /\ MapHas(otpStore, phone)

ExpiredConsumedWitness ==
    \E phone \in Phones :
        /\ Len(hist) = 2
        /\ Sent(1, phone)
        /\ Verified(2, phone) /\ RightCode(2, phone)
        /\ hist[2].at > DueAt(1)
        /\ hist[2].message = ExpiredChallenge
        /\ ~MapHas(otpStore, phone)

(***************************************************************************)
(* C4: verify-otp with a code that differs from the stored challenge is    *)
(* answered InvalidCode and leaves the challenge, code and expiry, as it   *)
(* was issued; the following verify-otp with the stored code before the    *)
(* expiry succeeds.                                                        *)
(***************************************************************************)
\* event j is a verify-otp for phone carrying another code than the one of
\* the challenge stored for phone
WrongCode(j, phone) ==
    Verified(j, phone) /\ Pending(j, phone) /\ ~RightCode(j, phone)

WrongCodeKeepsChallenge ==
    \A phone \in Phones :
        Last > 0 =>
          LET s == LastSend(Last, phone)
          IN /\ WrongCode(Last, phone)
                => /\ hist[Last].message = InvalidCode
                   /\ MapHas(otpStore, phone)
                   /\ otpStore[phone] = [otp |-> hist[s].otp, expires |-> DueAt(s)]
             /\ \A j \in 1..(Last - 1) :
                   ( /\ WrongCode(j, phone)
                     /\ \A m \in (j + 1)..(Last - 1) : hist[m].phone # phone
                     /\ Verified(Last, phone)
                     /\ hist[Last].otp = hist[s].otp
                     /\ hist[Last].at <= DueAt(s) )
                   => hist[Last].status = 200

WrongCodeKeepsChallengeWitness ==
    \E phone \in Phones :
        /\ Len(hist) = 3
        /\ Sent(1, phone)
        /\ Verified(2, phone) /\ hist[2].otp # hist[1].otp
        /\ hist[2].message = InvalidCode
        /\ Verified(3, phone) /\ hist[3].otp = hist[1].otp
        /\ hist[3].status = 200

(***************************************************************************)
(* C5, as stated: after two send-otp for one phone with no verification in *)
(* between, verify-otp with the code of the first fails and only the code  *)
(* of the second succeeds.                                                 *)
(***************************************************************************)
\* s1 and s2 are consecutive send-otp for phone, with no verify-otp between
Resent(s1, s2, phone) ==
    /\ 0 < s1 /\ s1 < s2
    /\ Sent(s1, phone) /\ Sent(s2, phone)
    /\ \A m \in (s1 + 1)..(s2 - 1) : hist[m].phone # phone

ResendInvalidatesFirst ==
    \A phone \in Phones :
        (Last > 0 /\ Verified(Last, phone)) =>
          LET s2 == LastSend(Last, phone)
          IN \A s1 \in 1..(s2 - 1) :
                Resent(s1, s2, phone)
                => /\ hist[Last].otp = hist[s1].otp => hist[Last].status # 200
                   /\ hist[Last].status = 200 => hist[Last].otp = hist[s2].otp
                   /\ ( /\ PendingFrom(s2, Last, phone)
                        /\ hist[Last].otp = hist[s2].otp
                        /\ hist[Last].at <= DueAt(s2) ) => hist[Last].status = 200

(***************************************************************************)
(* C5, amended: after two send-otp for one phone with no verification in   *)
(* between, only the code of the second is accepted, until the expiry the  *)
(* second set; verify-otp with the code of the first fails whenever the    *)
(* two codes differ.                                                       *)
(***************************************************************************)
ResendReplacesFirst ==
    \A phone \in Phones :
        (Last > 0 /\ Verified(Last, phone)) =>
          LET s2 == LastSend(Last, phone)
          IN \A s1 \in 1..(s2 - 1) :
                Resent(s1, s2, phone)
                => /\ ( hist[s1].otp # hist[s2].otp /\ hist[Last].otp = hist[s1].otp )
                        => hist[Last].status # 200
                   /\ hist[Last].status = 200 => hist[Last].otp = hist[s2].otp
                   /\ ( /\ PendingFrom(s2, Last, phone)
                        /\ hist[Last].otp = hist[s2].otp
                        /\ hist[Last].at <= DueAt(s2) ) => hist[Last].status = 200

ResendReplacesFirstWitness ==
    \E phone \in Phones :
        /\ Len(hist) = 4
        /\ Resent(1, 2, phone)
        /\ hist[1].otp # hist[2].otp
        /\ Verified(3, phone) /\ hist[3].otp = hist[1].otp
        /\ hist[3].message = InvalidCode
        /\ Verified(4, phone) /\ hist[4].otp = hist[2].otp
        /\ hist[4].status = 200

(***************************************************************************)
(* C6: the identity store holds at most one identity per phone and its     *)
(* citizenId never changes: every successful verify-otp returns the        *)
(* citizenId stored for the phone, with isNew = TRUE only when it created  *)
(* the identity, and every success after the first returns the citizenId   *)
(* of the first with isNew = FALSE.                                        *)
(***************************************************************************)
\* event k is a successful verify-otp for phone
LoggedIn(k, phone) == Verified(k, phone) /\ hist[k].status = 200

OneIdentityPerPhone ==
    /\ \A i, j \in 1..Len(users) : users[i].phone = users[j].phone => i = j
    /\ \A phone \in Phones : \A k \in 1..Last :
          LoggedIn(k, phone)
          => /\ \E i \in 1..Len(users) :
                  /\ users[i].phone = phone
                  /\ users[i].citizenId = hist[k].citizenId
             /\ hist[k].isNew = NoIdentityBefore(k, phone)

OneIdentityPerPhoneWitness ==
    \E phone \in Phones :
        /\ Len(hist) = 4
        /\ LoggedIn(2, phone) /\ hist[2].isNew
        /\ LoggedIn(4, phone) /\ ~hist[4].isNew
        /\ hist[4].citizenId = hist[2].citizenId
        /\ Len(users) = 1

(***************************************************************************)
(* C7: no two identities of different phones hold the same citizenId.      *)
(***************************************************************************)
CitizenIdNeverReused ==
    \A i, j \in 1..Len(users) :
        users[i].phone # users[j].phone => users[i].citizenId # users[j].citizenId

(***************************************************************************)
(* C8: an update whose status is outside {pending, in-progress, resolved,  *)
(* rejected} is rejected and modifies nothing, so the status of every      *)
(* stored complaint is in that enumeration.                                *)
(***************************************************************************)
StatusAlwaysValid ==
    /\ \A k \in 1..Len(calls) :
          ( /\ calls[k].op = "update"
            /\ Truthy(calls[k].req.status)
            /\ calls[k].req.status \notin Statuses )
          => calls[k].status \in {400, 404}
    /\ \A i \in 1..Len(complaints) : complaints[i].status \in Statuses

(***************************************************************************)
(* C9: the issueType of every complaint persisted by submit is in          *)
(* {pothole, garbage, streetlight, water-leakage, dirty-toilet, other},    *)
(* whatever the caller supplies and whatever the vision adapter returns.   *)
(***************************************************************************)
IssueTypeAlwaysValid ==
    \A i \in 1..Len(complaints) : complaints[i].issueType \in IssueTypes

(***************************************************************************)
(* C10: a submit whose latitude or longitude is missing or does not parse  *)
(* as a finite number is answered 400 and adds no complaint to the store.  *)
(***************************************************************************)
BadLocationRejected ==
    /\ \A k \in 1..Len(calls) :
          ( /\ calls[k].op = "submit"
            /\ \/ ~ParseFloat(calls[k].req.latitude).finite
               \/ ~ParseFloat(calls[k].req.longitude).finite )
          => calls[k].status = 400
    /\ \A i \in 1..Len(complaints) :
          /\ complaints[i].location.latitude.finite
          /\ complaints[i].location.longitude.finite

(***************************************************************************)
(* C11: complaintId is unique across the store: no two stored complaints   *)
(* share a complaintId, after any sequence of submit, update and remove.   *)
(***************************************************************************)
ComplaintIdUnique ==
    \A i, j \in 1..Len(complaints) :
        complaints[i].complaintId = complaints[j].complaintId => i = j

(***************************************************************************)
(* Reading the submissions. made[i] holds the body of the i-th persisted   *)
(* submission, what the adapter answered for it and the record pushed.     *)
(***************************************************************************)
Min(S) == CHOOSE x \in S : \A y \in S : x <= y

\* the submission just persisted: every submission is that one in the state
\* its handler leaves, and made never changes an entry
LastMade ==
    IF /\ calls # << >>
       /\ calls[Len(calls)].op = "submit"
       /\ calls[Len(calls)].at = now
    THEN {Len(made)}
    ELSE {}

\* the submission came with a photo and the adapter was Unavailable for it:
\* no credential, or the upstream call or the parse failed
PhotoUnanswered(i) ==
    /\ made[i].body.filename # Undefined
    /\ (~hasKey \/ made[i].ai = Unavailable)

\* submission j is submission i without its photo
SameWithoutPhoto(i, j) ==
    made[j].body = [made[i].body EXCEPT !.filename = Undefined]

(***************************************************************************)
(* C12: a submit with a photo for which the adapter is Unavailable is      *)
(* answered 201 and persists a complaint with the same issueType,          *)
(* description, priority and department as the same submit without photo.  *)
(***************************************************************************)
UnavailableChangesNothing ==
    /\ \A i, j \in 1..Len(made) :
          ((i \in LastMade \/ j \in LastMade) /\ PhotoUnanswered(i) /\ SameWithoutPhoto(i, j))
          => /\ made[i].record.issueType = made[j].record.issueType
             /\ made[i].record.description = made[j].record.description
             /\ made[i].record.priority = made[j].record.priority
             /\ made[i].record.department = made[j].record.department
    /\ \A k \in 1..Len(calls) : calls[k].op = "submit" => calls[k].status = 201

\* the upstream call failed for a photo of a pothole reported without a type,
\* and the same report came without a photo
UnavailableChangesNothingWitness ==
    \E i, j \in 1..Len(made) :
        /\ hasKey
        /\ PhotoUnanswered(i) /\ SameWithoutPhoto(i, j)
        /\ made[i].record.issueType = "pothole"
        /\ made[i].record.photo # ""
        /\ made[j].record.photo = ""

(***************************************************************************)
(* C13 as stated: when the adapter returns a result, the persisted         *)
(* issueType is the adapter's issueType and the persisted description is   *)
(* the citizen's description with the adapter's description appended.      *)
(***************************************************************************)
AdapterIssueTypePersisted ==
    \A i \in LastMade :
        made[i].ai.found
        => /\ Truthy(made[i].ai.issueType)
                => made[i].record.issueType = made[i].ai.issueType
           /\ Truthy(made[i].ai.description)
                => made[i].record.description =
                      Str(made[i].body.description) \o " (AI Detected: "
                         \o made[i].ai.description \o ")"

\* the categories in the order the claim gives, and the words of each
CategoryOrder == <<"pothole", "garbage", "streetlight", "water-leakage", "dirty-toilet">>

KeywordsOf(category) ==
    CASE category = "pothole" -> {"road", "pothole", "crack", "hole"}
      [] category = "garbage" -> {"garbage", "trash", "waste", "dustbin", "plastic"}
      [] category = "streetlight" -> {"light", "lamp", "dark", "pole"}
      [] category = "water-leakage" -> {"water", "leak", "pipe", "drain", "sewage"}
      [] category = "dirty-toilet" -> {"toilet", "bathroom", "urinal"}

\* the first category one of whose words occurs in the text, letter case
\* ignored; other when there is none
FirstMatch(text) ==
    LET lower == ToLowerCase(text)
        hits == {k \in 1..Len(CategoryOrder) :
                    \E w \in KeywordsOf(CategoryOrder[k]) : Includes(lower, w)}
    IN IF hits = {} THEN "other" ELSE CategoryOrder[Min(hits)]

(***************************************************************************)
(* C13, amended: when the adapter returns a result, its issueType (when it *)
(* carries one) replaces the caller's before the keyword fallback runs:    *)
(* the persisted issueType is the adapter's unless that is other, and then *)
(* it is the first category matching the description with the note         *)
(* appended; the persisted description is the citizen's description, a     *)
(* space, and the adapter's description as (AI Detected: ...) when the     *)
(* result carries one.                                                     *)
(***************************************************************************)
AdapterResultApplied ==
    \A i \in LastMade :
        made[i].ai.found
        => /\ (Truthy(made[i].ai.issueType) /\ made[i].ai.issueType # "other")
                => made[i].record.issueType = made[i].ai.issueType
           /\ made[i].ai.issueType = "other"
                => made[i].record.issueType = FirstMatch(made[i].record.description)
           /\ made[i].record.description =
                 Str(made[i].body.description) \o " " \o
                   (IF Truthy(made[i].ai.description)
                    THEN "(AI Detected: " \o made[i].ai.description \o ")"
                    ELSE "")

AdapterResultAppliedWitness ==
    \E i \in 1..Len(made) :
        /\ made[i].ai.found
        /\ made[i].body.issueType = "other"
        /\ made[i].ai.issueType = "pothole"
        /\ made[i].record.issueType = "pothole"
        /\ made[i].record.description =
              "Broken bench (AI Detected: Large pothole in center of road.)"

(***************************************************************************)
(* C14: when issueType is unset or other after the adapter step, the       *)
(* persisted issueType is the first category, in the order pothole,        *)
(* garbage, streetlight, water-leakage, dirty-toilet, one of whose words   *)
(* occurs in the description, letter case ignored, and other when none     *)
(* does; an unset issueType with a description containing "pothole in the  *)
(* road" gives pothole and the department Roads & Highway Dept.            *)
(***************************************************************************)
\* the issueType of submission i after the adapter step
AfterAdapter(i) ==
    IF made[i].ai.found /\ Truthy(made[i].ai.issueType)
    THEN made[i].ai.issueType
    ELSE made[i].body.issueType

FallbackFirstMatch ==
    \A i \in LastMade :
        (~Truthy(AfterAdapter(i)) \/ AfterAdapter(i) = "other")
        => /\ made[i].record.issueType =
                 IF Truthy(made[i].record.description)
                 THEN FirstMatch(made[i].record.description)
                 ELSE "other"
           /\ ( /\ ~Truthy(AfterAdapter(i))
                /\ Includes(ToLowerCase(Str(made[i].record.description)),
                            "pothole in the road") )
                => /\ made[i].record.issueType = "pothole"
                   /\ made[i].record.department = "Roads & Highway Dept"

\* the adapter answered other and its note names trash before a lamp post
FallbackFirstMatchWitness ==
    \E i, j \in 1..Len(made) :
        /\ made[i].ai.issueType = "other"
        /\ made[i].record.description =
              "Broken bench (AI Detected: Trash near the lamp post)"
        /\ made[i].record.issueType = "garbage"
        /\ made[j].body.issueType = Undefined
        /\ made[j].body.description = "Pothole in the road"
        /\ made[j].record.issueType = "pothole"
        /\ made[j].record.department = "Roads & Highway Dept"

(***************************************************************************)
(* C15: the department of every stored complaint, after any later update,  *)
(* is the Department Router's value for its issueType, and so is the       *)
(* assignedTo of the record submit pushes; the mapping is defined for      *)
(* every issueType of the enumeration, with other mapped to General        *)
(* Administration.                                                         *)
(***************************************************************************)
DepartmentNames ==
    {"Roads & Highway Dept", "Sanitation Dept", "Energy & Power Dept",
     "Water Supply Dept", "Health & Hygiene Dept", "General Administration"}

DepartmentRouted ==
    /\ \A t \in IssueTypes : DepartmentOf(t) \in DepartmentNames
    /\ DepartmentOf("other") = "General Administration"
    /\ \A i \in 1..Len(complaints) :
          /\ complaints[i].department = DepartmentOf(complaints[i].issueType)
          /\ complaints[i].issueType = "other"
                => complaints[i].department = "General Administration"
          /\ complaints[i].issueType = "pothole"
                => complaints[i].department = "Roads & Highway Dept"
    /\ \A i \in LastMade :
          /\ made[i].record.department = DepartmentOf(made[i].record.issueType)
          /\ made[i].record.assignedTo = made[i].record.department

\* a complaint reassigned by an update keeps the department submit gave it
DepartmentRoutedWitness ==
    /\ Len(calls) = 2 /\ Len(complaints) = 1
    /\ calls[2].op = "update" /\ calls[2].status = 200
    /\ calls[2].req.assignedTo = "Ward 7"
    /\ complaints[1].assignedTo = "Ward 7"
    /\ complaints[1].issueType = "garbage"
    /\ complaints[1].department = "Sanitation Dept"
    /\ made[1].record.assignedTo = "Sanitation Dept"

(***************************************************************************)
(* C16: an update changes only the fields present in the patch and         *)
(* updatedAt: every step that answers an update with 200 leaves the other  *)
(* complaints as they were and, in the complaint it names, sets updatedAt  *)
(* to the time of the update and leaves every field the patch does not     *)
(* carry unchanged; with an empty patch that is every field but updatedAt. *)
(***************************************************************************)
\* the complaint fields a patch carries
Carried(patch) ==
    {f \in {"status", "priority", "assignedTo", "resolutionNotes"} : patch[f] # Undefined}
    \cup (IF patch.filename # Undefined THEN {"resolutionPhoto"} ELSE {})

\* this step answered an update with 200
Updated ==
    /\ Len(calls') = Len(calls) + 1
    /\ calls'[Len(calls')].op = "update"
    /\ calls'[Len(calls')].status = 200

UpdateFrame ==
    [][ Updated =>
          LET e == calls'[Len(calls')]
              k == FindIndex(complaints, e.id)
          IN /\ k \in 1..Len(complaints)
             /\ Len(complaints') = Len(complaints)
             /\ \A j \in 1..Len(complaints) : j # k => complaints'[j] = complaints[j]
             /\ DOMAIN complaints'[k] = DOMAIN complaints[k]
             /\ complaints'[k].updatedAt = now
             /\ \A f \in DOMAIN complaints[k] \ ({"updatedAt"} \cup Carried(e.req)) :
                   complaints'[k][f] = complaints[k][f] ]_vars

\* an empty patch applied after the clock moved: only updatedAt differs from
\* the record submit pushed
UpdateFrameWitness ==
    /\ Len(calls) = 2 /\ Len(complaints) = 1
    /\ calls[2].op = "update" /\ calls[2].status = 200
    /\ calls[2].req = EmptyPatch
    /\ complaints[1].updatedAt > complaints[1].createdAt
    /\ complaints[1] = [made[1].record EXCEPT !.updatedAt = now]

(***************************************************************************)
(* C17: for a limit and a skip that are whole numbers, not negative, GET / *)
(* returns the complaints that pass the filters, sorted by createdAt       *)
(* descending and sliced: total is their count before paging, the page     *)
(* holds min(limit, max(0, total - skip)) of them, and the item at         *)
(* position a is one that ranks skip + a by recency; limit=2, skip=0 over  *)
(* five stored complaints returns the two created last.                    *)
(***************************************************************************)
\* the stored complaints that pass the filters of the query, by position
Passing(query) == {i \in 1..Len(complaints) : Matches(complaints[i], query)}

\* the passing complaints created after t, and those created at t or after
Newer(query, t) == {i \in Passing(query) : complaints[i].createdAt > t}
AsNew(query, t) == {i \in Passing(query) : complaints[i].createdAt >= t}

Smaller(a, b) == IF a < b THEN a ELSE b

ListPaged ==
    ( /\ reply.route = "list"
      /\ reply.limit.finite /\ reply.limit.value >= 0
      /\ reply.skip.finite /\ reply.skip.value >= 0 )
    => LET query == reply.query
           limit == reply.limit.value
           skip == reply.skip.value
           page == reply.data
           rest == IF reply.total > skip THEN reply.total - skip ELSE 0
       IN /\ reply.total = Cardinality(Passing(query))
          /\ Len(page) = Smaller(limit, rest)
          /\ \A a \in 1..Len(page) :
                /\ \E i \in Passing(query) : complaints[i] = page[a]
                /\ \A b \in 1..Len(page) : page[a] = page[b] => a = b
                /\ \A b \in (a + 1)..Len(page) : page[a].createdAt >= page[b].createdAt
                /\ Cardinality(Newer(query, page[a].createdAt)) <= skip + a - 1
                /\ Cardinality(AsNew(query, page[a].createdAt)) >= skip + a
          /\ ( /\ Len(complaints) = 5 /\ Passing(query) = 1..5
               /\ limit = 2 /\ skip = 0 )
             => /\ Len(page) = 2
                /\ \A i \in 1..5 : \A a \in 1..2 :
                      complaints[i] \in {page[1], page[2]}
                      \/ complaints[i].createdAt <= page[a].createdAt

\* five stored complaints, the last three created one after the other, and
\* the page of limit=2, skip=0 is the fifth and then the fourth
ListPagedWitness ==
    /\ reply.route = "list"
    /\ Len(complaints) = 5
    /\ reply.query.limit = "2" /\ reply.query.skip = "0"
    /\ reply.total = 5
    /\ complaints[3].createdAt < complaints[4].createdAt
    /\ complaints[4].createdAt < complaints[5].createdAt
    /\ reply.data = <<complaints[5], complaints[4]>>

(***************************************************************************)
(* C18: once DELETE /:id has answered success for a complaintId, every     *)
(* later GET /:id and PATCH /:id for it answers 404 and no later page of   *)
(* GET / shows a complaint with it.                                        *)
(***************************************************************************)
\* call k is a remove that answered success
Removed(k) == calls[k].op = "remove" /\ calls[k].status = 200

RemovedStaysGone ==
    \A k \in 1..Len(calls) :
        Removed(k)
        => /\ \A m \in (k + 1)..Len(calls) :
                 (calls[m].op = "update" /\ calls[m].id = calls[k].id)
                 => calls[m].status = 404
           /\ (reply.route = "get" /\ reply.seq >= k /\ reply.id = calls[k].id)
                 => reply.status = 404
           /\ (reply.route = "list" /\ reply.seq >= k)
                 => \A a \in 1..Len(reply.data) :
                       reply.data[a].complaintId # calls[k].id

(***************************************************************************)
(* C19: send-otp answers 400 to a phone that is missing or shorter than 10 *)
(* characters and leaves every stored challenge as it was; to any other    *)
(* phone it answers 200 with the same body, whether or not an identity     *)
(* exists for the phone.                                                   *)
(***************************************************************************)
\* this step handled a send-otp
SendOtpHandled ==
    /\ Len(hist') = Len(hist) + 1
    /\ hist'[Len(hist')].op = "send-otp"

SendOtpBlind ==
    [][ SendOtpHandled =>
          LET e == hist'[Len(hist')]
          IN IF e.phone = Undefined \/ Len(e.phone) < 10
             THEN /\ e.status = 400
                  /\ otpStore' = otpStore
             ELSE /\ e.status = 200
                  /\ e.message = "OTP sent successfully"
                  /\ e.isNew = FALSE /\ e.citizenId = ""
                  /\ users' = users ]_vars

\* a phone asked for a code before it had an identity and again after, and
\* got the same answer
SendOtpBlindWitness ==
    \E phone \in Phones :
        /\ Len(hist) = 3
        /\ Sent(1, phone) /\ users # << >>
        /\ LoggedIn(2, phone) /\ hist[2].isNew
        /\ Sent(3, phone)
        /\ users[1].phone = phone
        /\ hist[3].message = hist[1].message

(***************************************************************************)
(* C20: every submit with a photo is answered in the end, even when the    *)
(* adapter never answers: whenever a submission waits for the adapter, a   *)
(* later state has none waiting.                                           *)
(***************************************************************************)
AdapterWaitEnds == (awaiting # {}) ~> (awaiting = {})

(***************************************************************************)
(* C21: every field an update patch carries is applied: after an update    *)
(* answered 200, the stored complaint holds the patch's value for each of  *)
(* status, priority, assignedTo and resolutionNotes the patch contains,    *)
(* the empty string included.                                              *)
(***************************************************************************)
PatchFieldsApplied ==
    ( /\ calls # << >>
      /\ calls[Len(calls)].op = "update"
      /\ calls[Len(calls)].status = 200 )
    => LET e == calls[Len(calls)]
           k == FindIndex(complaints, e.id)
       IN \A f \in {"status", "priority", "assignedTo", "resolutionNotes"} :
             e.req[f] # Undefined => complaints[k][f] = e.req[f]

(***************************************************************************)
(* C22: while a submit waits for the adapter the other routes are served   *)
(* and no record is lost: whenever a submission is suspended, list can     *)
(* answer and, as long as the run takes further requests, so can submit,   *)
(* update and remove; every answered submit has added exactly one          *)
(* complaint, and the store holds the complaints created less those        *)
(* removed.                                                                *)
(***************************************************************************)
\* the calls answered so far with the operation and the status
Answered(op, status) ==
    {k \in 1..Len(calls) : calls[k].op = op /\ calls[k].status = status}

NoRecordLost ==
    /\ Len(made) = Cardinality(Answered("submit", 201))
    /\ Len(complaints) = Len(made) - Cardinality(Answered("remove", 200))
    /\ \A i \in 1..Len(made) :
          (\A k \in Answered("remove", 200) : calls[k].id # made[i].record.complaintId)
          => \E j \in 1..Len(complaints) :
                /\ complaints[j].complaintId = made[i].record.complaintId
                /\ complaints[j].createdAt = made[i].record.createdAt
    /\ awaiting # {}
          => /\ ENABLED (\E query \in StoreQueries : List(query))
             /\ Len(calls) + Cardinality(awaiting) < MaxCalls
                   => /\ ENABLED Submit(DustbinReport, "A1B2")
                      /\ ENABLED Update(UnknownId, EmptyPatch)
                      /\ ENABLED Remove(UnknownId)

\* a submission that arrived first still waits for the adapter, and a submit
\* that arrived after it has been answered and its complaint stored
NoRecordLostWitness ==
    \E r \in awaiting :
        /\ r.ticket = 0
        /\ Len(calls) = 1
        /\ calls[1].op = "submit" /\ calls[1].status = 201
        /\ Len(complaints) = 1
        /\ complaints[1].complaintId = calls[1].complaintId

(***************************************************************************)
(* C23: the total of GET /stats is the number of stored complaints, the    *)
(* sum of its pending, inProgress, resolved and rejected counts, and the   *)
(* sum of its byType counts, after any sequence of submit, update and      *)
(* remove.                                                                 *)
(***************************************************************************)
\* the sum of f over the keys in S
RECURSIVE SumOver(_, _)
SumOver(f, S) ==
    IF S = {} THEN 0
    ELSE LET x == CHOOSE y \in S : TRUE IN f[x] + SumOver(f, S \ {x})

StatsAddUp ==
    (reply.route = "stats" /\ reply.seq = Len(calls))
    => /\ reply.data.total = Len(complaints)
       /\ reply.data.total = reply.data.pending + reply.data.inProgress
                               + reply.data.resolved + reply.data.rejected
       /\ reply.data.total = SumOver(reply.data.byType, DOMAIN reply.data.byType)

(***************************************************************************)
(* C24: an identity is created only by a verify-otp that carries the code  *)
(* of a stored, unexpired challenge for its phone: the identities are as   *)
(* many as the verifications answered 200 with isNew, so a verification    *)
(* answered NoPendingChallenge, InvalidCode or ExpiredChallenge adds none, *)
(* and each identity dates from such a verification, handled after a       *)
(* send-otp for its phone whose code it carries, before that code expired. *)
(***************************************************************************)
\* the verifications that created an identity
Creations ==
    {k \in 1..Len(hist) :
        hist[k].op = "verify-otp" /\ hist[k].status = 200 /\ hist[k].isNew}

IdentityOnlyByMatch ==
    /\ Len(users) = Cardinality(Creations)
    /\ \A i \in 1..Len(users) :
          \E k \in Creations :
              LET phone == users[i].phone
                  s == LastSend(k, phone)
              IN /\ hist[k].phone = phone
                 /\ users[i].joinedAt = hist[k].at
                 /\ users[i].citizenId = hist[k].citizenId
                 /\ PendingFrom(s, k, phone)
                 /\ hist[k].otp = hist[s].otp
                 /\ hist[k].at <= DueAt(s)

\* a verification before any send-otp and one with a wrong code created
\* nothing; the one with the stored code created the identity
IdentityOnlyByMatchWitness ==
    \E phone \in Phones :
        /\ Len(hist) = 4
        /\ Verified(1, phone) /\ hist[1].message = NoPendingChallenge
        /\ Sent(2, phone)
        /\ Verified(3, phone) /\ hist[3].message = InvalidCode
        /\ LoggedIn(4, phone) /\ hist[4].isNew
        /\ Len(users) = 1 /\ users[1].phone = phone

====
